---- MODULE Spec2Model ----
(***************************************************************************)
(* A model of YouTubeAutoList: one run of main() is the synchronisation    *)
(* pass (YouTubeManager.manage_playlist) over the configured channels,     *)
(* followed by the retention sweep (YouTubeManager.cleanup_playlists) and  *)
(* the summary.  Each action is the code between two requests to the       *)
(* YouTube API, the request and the handling of its outcome included.  The *)
(* outcome of a request is chosen by the environment: "ok", "fail" (any    *)
(* error that is not a quota error) or "quota" (HTTP 403 quotaExceeded).   *)
(*                                                                         *)
(* Time is counted in hours.  The clock advances between two runs only: a  *)
(* run is taken to last less than the shortest cache lifetime.             *)
(***************************************************************************)
EXTENDS Integers, Sequences, FiniteSets, TLC

\* ------------------------------------------------------------------ bounds
\* Runs of main() (processes) in one behaviour.
MaxRuns == 2
\* Requests the environment may fail in one behaviour.
MaxFaults == 2
\* Hours the clock may advance.
MaxTime == 2
\* Ids a search may match in the study of the batches of detail lookups.
MaxIds == 120
\* Seconds up to which every duration is formatted.
MaxSeconds == 7300
\* Hours the clock may advance in the study of YouTubeCache.
CacheMaxTime == 3
\* The configured quota ceiling of the specification's QuotaLedger, scaled to
\* the size of the model (the code holds no ceiling).
QuotaCeiling == 200

\* ------------------------------------------------------- program constants
None == "none"
\* CACHE_DURATION = 7200 seconds, in hours.
CACHE_DURATION == 2
\* YouTubeCache.cache_duration['videos'] = 3600 seconds, in hours.
VIDEOS_TTL == 1
\* YouTubeCache.cache_duration['playlists'] = 7200 seconds, in hours.
PLAYLISTS_TTL == 2
\* channel_config.get('max_duration', float('inf'))
NoMax == 1000000
\* The unit costs recorded by add_quota_usage.
SEARCH_COST == 100
DETAILS_COST == 1
LIST_COST == 1
INSERT_COST == 50
DELETE_COST == 50
\* The ids of one videos.list request of _get_videos_via_api.
BATCH_SIZE == 50
\* A video is a Short when at least this many indicators fire.
SHORT_THRESHOLD == 3

\* ------------------------------------------------------------ configuration
\* config['channels'] of YouTubeAutoListConfig.json, in configuration order.
config ==
  << [channel_id |-> "chA", channel_name |-> "A", playlist_id |-> "P1",
      playlist_name |-> "Daily", title_pattern |-> None, min_duration |-> 0, max_duration |-> NoMax,
      hours_limit |-> 8],
     [channel_id |-> "chB", channel_name |-> "B", playlist_id |-> "P2",
      playlist_name |-> "Fortnight", title_pattern |-> "news", min_duration |-> 120, max_duration |-> 3600,
      hours_limit |-> 8],
     [channel_id |-> "chD", channel_name |-> "D", playlist_id |-> None,
      playlist_name |-> None, title_pattern |-> None, min_duration |-> 0, max_duration |-> NoMax,
      hours_limit |-> 8],
     [channel_id |-> "chC", channel_name |-> "C", playlist_id |-> "P3",
      playlist_name |-> "Archive", title_pattern |-> None, min_duration |-> 0, max_duration |-> NoMax,
      hours_limit |-> 8] >>

ChannelIds == {"chA", "chB", "chC", "chD"}
Playlists == {"P1", "P2", "P3"}
Names == {"A", "B", "C", "D", "Owner"}

\* cleanup_playlists' playlist_limits: 2 days and 14 days, in hours, in the
\* order the dictionary is walked.  P3 is not in the retention configuration.
SweepOrder == << "P1", "P2" >>
playlist_limits == [p \in {"P1", "P2"} |-> IF p = "P1" THEN 2 * 24 ELSE 14 * 24]

\* --------------------------------------------------------------- the world
Videos == {"v1", "v2", "v3", "v4", "v5", "v6", "v7", "v8"}

\* An ISO 8601 duration PT#H#M#S: each component is a number or absent (-1).
Dur(h, m, s) == [H |-> h, M |-> m, S |-> s]

\* The video resource the API returns (videos.list, part snippet and
\* contentDetails).  title and description are the sets of words the code
\* searches; published is in hours relative to the start of the
\* behaviour; date says what a playlist item of this video carries in
\* contentDetails.videoPublishedAt: "ok", "absent" or "bad" (unparsable).
Video(ch, title, descr, d, w, h, pub, date) ==
  [channelId |-> ch, title |-> title, description |-> descr, duration |-> d,
   width |-> w, height |-> h, published |-> pub, date |-> date]

VideoData ==
  [v \in Videos |->
     CASE v = "v1" -> Video("chA", {"weekly", "talk"}, {}, Dur(-1, 10, 0), 120, 90, -1, "ok")
       [] v = "v2" -> Video("chA", {"clip"}, {"#shorts"}, Dur(-1, -1, 30), 90, 120, -2, "ok")
       [] v = "v3" -> Video("chB", {"news", "today"}, {}, Dur(-1, 5, 0), 120, 90, -337, "ok")
       [] v = "v4" -> Video("chC", {"archive"}, {}, Dur(1, 0, 0), 120, 90, -500, "ok")
       [] v = "v5" -> Video("chA", {"old", "talk"}, {}, Dur(-1, 20, 0), 120, 90, -49, "ok")
       [] v = "v6" -> Video("chA", {"edge"}, {}, Dur(-1, 3, 0), 120, 90, -48, "ok")
       [] v = "v7" -> Video("chB", {"news", "gone"}, {}, Dur(-1, 4, 0), 120, 90, -900, "absent")
       [] OTHER    -> Video("chB", {"news", "odd"}, {}, Dur(-1, 6, 0), 120, 90, -900, "bad")]

ChannelTitle(ch) == CASE ch = "chA" -> "A" [] ch = "chB" -> "B" [] OTHER -> "C"

\* The entries of a channel's RSS feed, newest first (the feed is not
\* filtered by age).
Feed == [c \in ChannelIds |->
           CASE c = "chA" -> << "v1", "v2" >>
             [] c = "chB" -> << "v3" >>
             [] c = "chD" -> << "v1" >>
             [] OTHER     -> << "v4" >>]

\* A playlist item: its id, its video and the hour it was added
\* (snippet.publishedAt of the item).
Item(id, v, at) == [id |-> id, video |-> v, addedAt |-> at]

\* The playlists before the first run.
InitialPlaylists ==
  { [p \in Playlists |->
       CASE p = "P1" -> << Item(1, "v5", -40), Item(2, "v6", -40) >>
         [] p = "P2" -> << Item(3, "v7", -400), Item(4, "v8", -400) >>
         [] OTHER    -> << Item(5, "v4", -450) >>],
    [p \in Playlists |->
       CASE p = "P1" -> << Item(1, "v1", 0), Item(2, "v6", -40) >>
         [] p = "P2" -> << >>
         [] OTHER    -> << >>],
    [p \in Playlists |->
       CASE p = "P1" -> << >>
         [] p = "P2" -> << Item(3, "v3", -300) >>
         [] OTHER    -> << >>] }

\* ---------------------------------------------------------- pure functions
\* YouTubeManager._parse_duration: hours*3600 + minutes*60 + seconds, an
\* absent component counting as 0.
parse_duration(d) ==
  (IF d.H >= 0 THEN d.H ELSE 0) * 3600
  + (IF d.M >= 0 THEN d.M ELSE 0) * 60
  + (IF d.S >= 0 THEN d.S ELSE 0)

\* str.lower() and re.IGNORECASE on the words of the model: a word written
\* with capitals and its lower-case form.
lower(word) ==
  CASE word = "News" -> "news"
    [] word = "NEWS" -> "news"
    [] word = "Today" -> "today"
    [] word = "#Shorts" -> "#shorts"
    [] OTHER -> word

\* A text (a set of words) in lower case.
Lower(text) == { lower(w) : w \in text }

short_indicators_no_thumbnail(video) ==
  (IF "#shorts" \in Lower(video.description) \/ "/shorts/" \in Lower(video.description)
     THEN 1 ELSE 0)
  + (IF "#shorts" \in Lower(video.title) THEN 1 ELSE 0)
  + (IF parse_duration(video.duration) <= 60 THEN 1 ELSE 0)

\* The four Short indicators of _video_matches_criteria, as 0 or 1.
short_indicators(video) ==
  (IF "#shorts" \in Lower(video.description) \/ "/shorts/" \in Lower(video.description)
     THEN 1 ELSE 0)
  + (IF "#shorts" \in Lower(video.title) THEN 1 ELSE 0)
  + (IF parse_duration(video.duration) <= 60 THEN 1 ELSE 0)
  + (IF video.height > video.width THEN 1 ELSE 0)

\* YouTubeManager._video_matches_criteria on a video resource.  A resource
\* without contentDetails is a record without the field duration: the tests
\* of the duration and of the Short indicators are inside
\* "if 'contentDetails' in video_details".
video_matches_criteria(video, channel_config) ==
  IF channel_config.title_pattern # None
       /\ lower(channel_config.title_pattern) \notin Lower(video.title)
    THEN FALSE
  ELSE IF "duration" \notin DOMAIN video
    THEN TRUE
  ELSE IF ~(channel_config.min_duration <= parse_duration(video.duration)
            /\ parse_duration(video.duration) <= channel_config.max_duration)
    THEN FALSE
  ELSE IF short_indicators(video) >= SHORT_THRESHOLD
    THEN FALSE
  ELSE TRUE

\* The ids search().list returns for a channel: its videos published after
\* now - hours_limit, newest first.
SearchResult(channel_config, t) ==
  SelectSeq(Feed[channel_config.channel_id],
            LAMBDA v : VideoData[v].published > t - channel_config.hours_limit)

\* _video_in_playlist.
video_in_playlist(v, items) == \E i \in 1..Len(items) : items[i].video = v

\* The publication time cleanup_playlists determines for an item:
\* contentDetails.videoPublishedAt when present, else snippet.publishedAt;
\* parsed |-> FALSE is the ValueError of strptime.
published_at_secondary(item) ==
  IF VideoData[item.video].date \in {"ok", "absent"}
    THEN [parsed |-> TRUE, at |-> item.addedAt]
    ELSE [parsed |-> FALSE, at |-> 0]

published_at(item) ==
  CASE VideoData[item.video].date = "ok" ->
         [parsed |-> TRUE, at |-> VideoData[item.video].published]
    [] VideoData[item.video].date = "absent" ->
         [parsed |-> TRUE, at |-> item.addedAt]
    [] OTHER -> [parsed |-> FALSE, at |-> 0]

too_old_inclusive(item, p, t) == (t - published_at(item).at) >= playlist_limits[p]

\* time_passed > time_limit
too_old(item, p, t) == (t - published_at(item).at) > playlist_limits[p]

\* ------------------------------------------------------------------- state
VARIABLES
  now,            \* the clock, in hours
  run,            \* the number of the current run of main()
  pc,             \* where the run stands
  ci,             \* manage_playlist: index of the channel being processed
  entries,        \* the feed entries, or the ids the search matched
  idx,            \* index in entries, in videos or in sweepItems
  videos,         \* the candidates get_channel_videos returned (video ids)
  pidx,           \* cleanup_playlists: index in playlist_limits
  sweepItems,     \* cleanup_playlists: the items read from the playlist
  quota_exceeded, \* YouTubeManager.quota_exceeded
  stats,          \* ExecutionStats.stats and ExecutionStats.totals
  playlists,      \* the playlists at YouTube
  nextId,         \* the id YouTube gives the next playlist item
  db_videos,      \* table videos of the database: video id -> cache_valid_until
  cache_videos,   \* YouTubeCache.cache['videos']
  last_update,    \* YouTubeCache.last_update
  executions,     \* table executions: its rows, each with the run that wrote it
  faults,         \* outcomes other than "ok" the environment has chosen
  issued,         \* requests issued in this run, by category
  quotaErrSeen,   \* a request of this run failed with quotaExceeded
  quotaAtSyncEnd, \* quota_exceeded when manage_playlist returned
  sweepQuotaErr,  \* a request of this run's sweep failed with quotaExceeded
  sweepIssued,    \* requests issued by this run's sweep
  lastInsert,     \* the last insert request of this run, and what it met
  lastDelete,     \* the last delete request of this run
  prevClean,      \* the previous run synchronised, had no failed request
                  \* and deleted nothing
  cache_playlists,\* YouTubeCache.cache['playlists']
  startup,        \* how the start of the run went
  exit_status,    \* the exit status of the process, -1 while it runs
  summary,        \* the summary main() has logged and notified
  inserted,       \* playlistItems.insert requests of this run that succeeded
  deleted,        \* playlistItems.delete requests of this run that succeeded
  feedFailures,   \* feed requests of this run that failed
  putLog,         \* YouTubeCache: the last update_cache of each (key, type)
  tokenErrSeen,   \* _check_token_error has raised TokenExpiredException in this run
  rss_cache,      \* YouTubeRSSManager._cache
  last_cache_update, \* YouTubeRSSManager._last_cache_update
  fetchLog,       \* YouTubeRSSManager: the last feed fetched for each channel
  swept,          \* the (playlist, video) pairs cleanup_playlists has deleted
  failedInsert,   \* the (run, playlist, video) of the inserts that failed
  arg,            \* the input of the function under study
  res             \* its result

vars == << now, run, pc, ci, entries, idx, videos, pidx, sweepItems,
           quota_exceeded, stats, playlists, nextId, db_videos, cache_videos,
           last_update, executions, faults, issued, quotaErrSeen,
           quotaAtSyncEnd, sweepQuotaErr, sweepIssued, lastInsert, lastDelete,
           prevClean, cache_playlists, startup, exit_status, summary,
           inserted, deleted, feedFailures, putLog, tokenErrSeen, rss_cache,
           last_cache_update, fetchLog, swept, failedInsert, arg, res >>

\* The feed manager.  A run of main() makes a manager of its own and asks it
\* for the feed of each channel once, so no answer of a run comes from its
\* cache; the calls on it are studied on their own.
feedvars == << rss_cache, last_cache_update, fetchLog >>

\* What every step but an insert or a delete leaves alone.
quiet == << feedvars, swept, failedInsert >>

\* The variables of the studies of single functions.
probe == << arg, res >>

\* What the steps between two writes, and the clock, leave alone.
aux == << cache_playlists, startup, exit_status, summary, inserted, deleted,
          feedFailures, putLog, tokenErrSeen, quiet, arg, res >>

\* ExecutionStats.__init__
NewStats ==
  [added |-> [p \in Playlists |-> 0],
   removed |-> [p \in Playlists |-> 0],
   duration_added |-> [p \in Playlists |-> 0],
   duration_removed |-> [p \in Playlists |-> 0],
   playlist_names |-> {},
   quota_usage |-> [search |-> 0, video_details |-> 0, playlist_items |-> 0,
                    add_video |-> 0, delete_video |-> 0],
   quota_saved |-> [search_operations |-> 0, video_details |-> 0, total_saved |-> 0],
   rss_stats |-> [videos_from_rss |-> 0, videos_from_api |-> 0, failed_rss_feeds |-> 0],
   channel_stats |-> [n \in Names |-> [added |-> 0, removed |-> 0]],
   video_origins |-> [n \in Names |-> 0],
   totals |-> [videos_added |-> 0, videos_removed |-> 0,
               duration_added |-> 0, duration_removed |-> 0]]

NoIssued == [search |-> 0, details |-> 0, list |-> 0, insert |-> 0, delete |-> 0]
NoInsert == [n |-> 0, playlist |-> None, video |-> None, channel |-> 0,
             member |-> FALSE, quota_exceeded |-> FALSE]
NoDelete == [n |-> 0, playlist |-> None, item |-> Item(0, None, 0), at |-> 0]
NoWrites == [p \in Playlists |-> [n |-> 0, duration |-> 0]]
NoSummary == [sent |-> FALSE, playlists |-> {}, channels |-> {},
              added |-> [p \in Playlists |-> 0], removed |-> [p \in Playlists |-> 0]]

\* ExecutionStats.add_quota_usage
add_quota_usage(s, operation, units) ==
  [s EXCEPT !.quota_usage[operation] = @ + units]

\* ExecutionStats.add_quota_saved
add_quota_saved(s, operation, amount) ==
  [s EXCEPT !.quota_saved[operation] = @ + amount,
            !.quota_saved.total_saved = @ + amount]

add_video_untotalled(s, playlist_id, duration) ==
  [s EXCEPT !.added[playlist_id] = @ + 1,
            !.duration_added[playlist_id] = @ + duration]

\* ExecutionStats.add_video
add_video(s, playlist_id, duration) ==
  [s EXCEPT !.added[playlist_id] = @ + 1,
            !.duration_added[playlist_id] = @ + duration,
            !.totals.videos_added = @ + 1,
            !.totals.duration_added = @ + duration]

\* ExecutionStats.remove_video
remove_video(s, playlist_id, duration, channel_name) ==
  [s EXCEPT !.removed[playlist_id] = @ + 1,
            !.duration_removed[playlist_id] = @ + duration,
            !.totals.videos_removed = @ + 1,
            !.totals.duration_removed = @ + duration,
            !.video_origins[channel_name] = @ + 1]

\* ExecutionStats.update_channel_stats
update_channel_stats(s, channel_name, action) ==
  [s EXCEPT !.channel_stats[channel_name][action] = @ + 1]

\* sum(stats['quota_usage'].values())
total_quota(s) ==
  s.quota_usage.search + s.quota_usage.video_details + s.quota_usage.playlist_items
  + s.quota_usage.add_video + s.quota_usage.delete_video

\* DatabaseManager.save_execution_stats: the row INSERTed into executions.
save_execution_stats(s) ==
  [quota_used |-> total_quota(s),
   videos_added |-> s.added["P1"] + s.added["P2"] + s.added["P3"],
   videos_removed |-> s.removed["P1"] + s.removed["P2"] + s.removed["P3"],
   duration_added |-> s.duration_added["P1"] + s.duration_added["P2"]
                      + s.duration_added["P3"],
   duration_removed |-> s.duration_removed["P1"] + s.duration_removed["P2"]
                        + s.duration_removed["P3"]]

\* DatabaseManager.get_cached_video: a row whose cache_valid_until is later
\* than now.
get_cached_video(db, v, t) == v \in DOMAIN db /\ db[v] > t

\* DatabaseManager.cache_video: INSERT OR REPLACE with
\* cache_valid_until = now + cache_duration.
cache_video(db, v, t) == (v :> (t + CACHE_DURATION)) @@ db

\* The video resource of videos.list as _get_video_details returns it and
\* hands it to cache_video (channelTitle is always present in it).
video_resource(v) ==
  [id |-> v,
   title |-> VideoData[v].title,
   channelId |-> VideoData[v].channelId,
   channelTitle |-> ChannelTitle(VideoData[v].channelId),
   description |-> VideoData[v].description,
   thumbnails |-> [width |-> VideoData[v].width, height |-> VideoData[v].height],
   duration |-> VideoData[v].duration,
   publishedAt |-> VideoData[v].published]

\* The columns DatabaseManager.cache_video writes for a video resource.
cache_row(video_data) ==
  [video_id |-> video_data.id, title |-> video_data.title,
   channel_id |-> video_data.channelId, duration |-> video_data.duration,
   published_at |-> video_data.publishedAt]

\* The dictionary DatabaseManager.get_cached_video builds from a row.
cached_video(row) ==
  [id |-> row.video_id, title |-> row.title, channelId |-> row.channel_id,
   publishedAt |-> row.published_at, duration |-> row.duration]

\* YouTubeCache.is_cache_valid
is_cache_valid(lu, key, ttl, t) == key \in DOMAIN lu /\ (t - lu[key]) < ttl

\* YouTubeCache.get_cached_data, None being the empty sequence here (the
\* caller tests the result for truth).
get_cached_data(cache, lu, key, t) ==
  IF key \in DOMAIN cache /\ key \in DOMAIN lu /\ (t - lu[key]) < CACHE_DURATION
    THEN cache[key]
    ELSE << >>

\* The outcomes the environment may give a request.  Every outcome that is
\* not "ok" is taken from the budget MaxFaults.
Outcomes == IF faults < MaxFaults THEN {"ok", "fail", "quota"} ELSE {"ok"}
\* The feed: its entries, a failed request or parse, or a feed that was
\* fetched and holds no entry.
FeedOutcomes == IF faults < MaxFaults THEN {"ok", "fail", "empty"} ELSE {"ok"}
\* The outcomes of a request of _get_videos_via_api: "token" is an exception
\* that is not an HttpError and whose text tells of an expired or revoked
\* token (invalid_grant), for which _check_token_error raises
\* TokenExpiredException.  get_channel_videos catches it with every other
\* exception and returns [].
ApiOutcomes == IF faults < MaxFaults THEN {"ok", "fail", "quota", "token"} ELSE {"ok"}
Spent(o) == IF o = "ok" THEN faults ELSE faults + 1

Issue(category) == [issued EXCEPT ![category] = @ + 1]

\* The state after YouTubeManager(): nothing done yet.
Program ==
  /\ now = 0
  /\ run = 1
  /\ pc = "start"
  /\ ci = 1
  /\ entries = << >>
  /\ idx = 1
  /\ videos = << >>
  /\ pidx = 1
  /\ sweepItems = << >>
  /\ quota_exceeded = FALSE
  /\ stats = NewStats
  /\ playlists \in InitialPlaylists
  /\ nextId = 6
  /\ db_videos = << >>
  /\ cache_videos = << >>
  /\ last_update = << >>
  /\ executions = << >>
  /\ faults = 0
  /\ issued = NoIssued
  /\ quotaErrSeen = FALSE
  /\ quotaAtSyncEnd = FALSE
  /\ sweepQuotaErr = FALSE
  /\ sweepIssued = 0
  /\ lastInsert = NoInsert
  /\ lastDelete = NoDelete
  /\ prevClean = FALSE
  /\ cache_playlists = << >>
  /\ startup = "ok"
  /\ exit_status = -1
  /\ summary = NoSummary
  /\ inserted = NoWrites
  /\ deleted = NoWrites
  /\ feedFailures = 0
  /\ putLog = << >>
  /\ tokenErrSeen = FALSE
  /\ rss_cache = << >>
  /\ last_cache_update = << >>
  /\ fetchLog = << >>
  /\ swept = {}
  /\ failedInsert = {}

Init == Program /\ arg = None /\ res = None

\* ----------------------------------------------------------------- main()
\* How the start of a run can go: check_internet_connection answers True,
\* or it answers False (no connection), or authenticate raises (the token
\* file is missing, incomplete, or the credentials are refused).
StartOutcomes == {"ok", "offline", "credentials"}

\* main: YouTubeManager(), check_internet_connection, authenticate,
\* load_config, and the call of manage_playlist.  Without a connection main
\* logs the error and returns; an exception of authenticate reaches the last
\* handler of main, which logs it and calls sys.exit(1).
Startup ==
  /\ pc = "start"
  /\ UNCHANGED << quiet, tokenErrSeen, cache_playlists, summary, inserted, deleted, feedFailures,
                  putLog, arg, res >>
  /\ \E c \in StartOutcomes :
       /\ startup' = c
       /\ pc' = IF c = "ok" THEN "channel" ELSE "exit"
       /\ exit_status' = CASE c = "ok" -> exit_status
                            [] c = "offline" -> 0
                            [] OTHER -> 1
  /\ ci' = 1
  /\ UNCHANGED << now, run, entries, idx, videos, pidx, sweepItems,
                  quota_exceeded, stats, playlists, nextId, db_videos,
                  cache_videos, last_update, executions, faults, issued,
                  quotaErrSeen, quotaAtSyncEnd, sweepQuotaErr, sweepIssued,
                  lastInsert, lastDelete, prevClean >>

\* ------------------------------------------------------- manage_playlist
\* What manage_playlist does with the candidates get_channel_videos
\* returned: the loop over them, or the next channel when there are none.
Candidates(vs) ==
  /\ videos' = vs
  /\ idx' = 1
  /\ IF vs = << >>
       THEN pc' = "channel" /\ ci' = ci + 1
       ELSE pc' = "diff" /\ ci' = ci

\* The next candidate of the channel, or the next channel.
NextVideo ==
  IF idx < Len(videos)
    THEN pc' = "diff" /\ idx' = idx + 1 /\ ci' = ci
    ELSE pc' = "channel" /\ idx' = 1 /\ ci' = ci + 1

skip_no_channel(channel) == FALSE

\* "if not channel.get('playlist_id'): ... continue"
skip_channel(channel) == channel.playlist_id = None

\* manage_playlist's loop head, and get_channel_videos up to the answer of
\* the RSS feed (YouTubeRSSManager.get_channel_feed returns [] when the
\* request or the parse fails).
BeginChannel ==
  /\ pc = "channel"
  /\ UNCHANGED << quiet, tokenErrSeen, cache_playlists, startup, exit_status, summary, inserted,
                  deleted, putLog, arg, res >>
  /\ UNCHANGED << now, run, pidx, sweepItems, quota_exceeded, playlists,
                  nextId, db_videos, cache_videos, last_update, executions,
                  issued, quotaErrSeen, sweepQuotaErr, sweepIssued,
                  lastInsert, lastDelete, prevClean >>
  /\ IF ci > Len(config)
       THEN /\ pc' = "sync_end"
            /\ quotaAtSyncEnd' = quota_exceeded
            /\ UNCHANGED << ci, entries, idx, videos, stats, faults, feedFailures >>
     ELSE IF skip_channel(config[ci])
       THEN /\ ci' = ci + 1
            /\ UNCHANGED << pc, entries, idx, videos, stats, faults,
                            quotaAtSyncEnd, feedFailures >>
     ELSE \E o \in FeedOutcomes :
            LET named == IF config[ci].playlist_name # None
                           THEN [stats EXCEPT !.playlist_names =
                                   @ \cup {config[ci].playlist_id}]
                           ELSE stats
                rss_entries == IF o = "ok" THEN Feed[config[ci].channel_id] ELSE << >>
            IN  /\ faults' = Spent(o)
                /\ feedFailures' = IF o = "fail" THEN feedFailures + 1 ELSE feedFailures
                /\ UNCHANGED << ci, quotaAtSyncEnd >>
                /\ videos' = << >>
                /\ idx' = 1
                /\ IF rss_entries # << >>
                     THEN /\ stats' = add_quota_saved(
                                 [named EXCEPT !.rss_stats.videos_from_rss = @ + Len(rss_entries)],
                                 "search_operations", SEARCH_COST)
                          /\ entries' = rss_entries
                          /\ pc' = "rss_entry"
                     ELSE /\ stats' = [named EXCEPT !.rss_stats.failed_rss_feeds = @ + 1,
                                                    !.rss_stats.videos_from_api = @ + 1]
                          /\ entries' = << >>
                          /\ pc' = "api_search"

collect_first(vs, v) == << v >> \o vs

\* videos.append(video_details)
collect(vs, v) == Append(vs, v)

\* After entry idx of the feed: the next entry, or the return of videos.
AfterEntry(vs) ==
  IF idx < Len(entries)
    THEN /\ videos' = vs /\ idx' = idx + 1 /\ pc' = "rss_entry" /\ ci' = ci
    ELSE Candidates(vs)

\* get_channel_videos, one entry of the feed: skipped when the database
\* holds it, else _get_video_details (the request videos.list).
RssEntry ==
  /\ pc = "rss_entry"
  /\ UNCHANGED aux
  /\ UNCHANGED << now, run, entries, pidx, sweepItems, quota_exceeded,
                  playlists, nextId, cache_videos, last_update, executions,
                  quotaAtSyncEnd, sweepQuotaErr, sweepIssued, lastInsert,
                  lastDelete, prevClean >>
  /\ LET v == entries[idx] IN
     IF get_cached_video(db_videos, v, now)
       THEN /\ stats' = add_quota_saved(stats, "video_details", DETAILS_COST)
            /\ AfterEntry(videos)
            /\ UNCHANGED << db_videos, faults, issued, quotaErrSeen >>
       ELSE \E o \in Outcomes :
              /\ faults' = Spent(o)
              /\ issued' = Issue("details")
              /\ quotaErrSeen' = (quotaErrSeen \/ o = "quota")
              /\ stats' = add_quota_usage(stats, "video_details", DETAILS_COST)
              /\ IF o = "ok"
                   THEN /\ db_videos' = cache_video(db_videos, v, now)
                        /\ AfterEntry(collect(videos, v))
                   ELSE /\ db_videos' = db_videos
                        /\ AfterEntry(videos)

\* _get_videos_via_api up to the answer of search().list.  An HttpError goes
\* through _check_quota_error, which sets quota_exceeded and raises
\* QuotaExceededException on quotaExceeded; whatever is raised is caught by
\* get_channel_videos, which returns [].
ApiSearch ==
  /\ pc = "api_search"
  /\ UNCHANGED << cache_playlists, startup, exit_status, summary, inserted,
                  deleted, feedFailures, putLog, quiet, arg, res >>
  /\ UNCHANGED << now, run, pidx, sweepItems, playlists, nextId, db_videos,
                  executions, quotaAtSyncEnd, sweepQuotaErr, sweepIssued,
                  lastInsert, lastDelete, prevClean >>
  /\ LET channel_id == config[ci].channel_id
         cached_videos == get_cached_data(cache_videos, last_update, channel_id, now)
     IN
     IF is_cache_valid(last_update, channel_id, VIDEOS_TTL, now) /\ cached_videos # << >>
       THEN /\ Candidates(cached_videos)
            /\ UNCHANGED << entries, quota_exceeded, stats, cache_videos,
                            last_update, faults, issued, quotaErrSeen,
                            tokenErrSeen >>
       ELSE \E o \in ApiOutcomes :
              /\ faults' = Spent(o)
              /\ tokenErrSeen' = (tokenErrSeen \/ o = "token")
              /\ issued' = Issue("search")
              /\ quotaErrSeen' = (quotaErrSeen \/ o = "quota")
              /\ stats' = add_quota_usage(stats, "search", SEARCH_COST)
              /\ quota_exceeded' = (quota_exceeded \/ o = "quota")
              /\ IF o = "ok" /\ SearchResult(config[ci], now) # << >>
                   THEN /\ entries' = SearchResult(config[ci], now)
                        /\ pc' = "api_details"
                        /\ UNCHANGED << ci, idx, videos, cache_videos, last_update >>
                   ELSE /\ entries' = << >>
                        /\ Candidates(<< >>)
                        /\ IF o = "ok"
                             THEN /\ cache_videos' = (channel_id :> << >>) @@ cache_videos
                                  /\ last_update' = (channel_id :> now) @@ last_update
                             ELSE UNCHANGED << cache_videos, last_update >>

\* The videos of a batch _get_videos_via_api keeps: those the database
\* holds, and those that match the channel's criteria.
Kept(ids, channel_config) ==
  SelectSeq(ids, LAMBDA v : \/ get_cached_video(db_videos, v, now)
                            \/ video_matches_criteria(VideoData[v], channel_config))

\* The videos of a batch that are matched and stored in the database.
Matched(ids, channel_config) ==
  { v \in { ids[i] : i \in 1..Len(ids) } :
      /\ ~get_cached_video(db_videos, v, now)
      /\ video_matches_criteria(VideoData[v], channel_config) }

\* _get_videos_via_api, the batch of videos.list and the loop over its
\* answer, then update_cache and the return of videos.
ApiDetails ==
  /\ pc = "api_details"
  /\ UNCHANGED << cache_playlists, startup, exit_status, summary, inserted,
                  deleted, feedFailures, putLog, quiet, arg, res >>
  /\ UNCHANGED << now, run, entries, pidx, sweepItems, playlists, nextId,
                  executions, quotaAtSyncEnd, sweepQuotaErr, sweepIssued,
                  lastInsert, lastDelete, prevClean >>
  /\ \E o \in ApiOutcomes :
       LET channel_id == config[ci].channel_id
           matched == Matched(entries, config[ci])
           counted == add_quota_usage(stats, "video_details", DETAILS_COST)
       IN
       /\ faults' = Spent(o)
       /\ tokenErrSeen' = (tokenErrSeen \/ o = "token")
       /\ issued' = Issue("details")
       /\ quotaErrSeen' = (quotaErrSeen \/ o = "quota")
       /\ quota_exceeded' = (quota_exceeded \/ o = "quota")
       /\ IF o = "ok"
            THEN /\ stats' = [counted EXCEPT
                                !.channel_stats[config[ci].channel_name].added =
                                    @ + Cardinality(matched)]
                 /\ db_videos' = [v \in matched |-> now + CACHE_DURATION] @@ db_videos
                 /\ cache_videos' = (channel_id :> Kept(entries, config[ci])) @@ cache_videos
                 /\ last_update' = (channel_id :> now) @@ last_update
                 /\ Candidates(Kept(entries, config[ci]))
            ELSE /\ stats' = counted
                 /\ UNCHANGED << db_videos, cache_videos, last_update >>
                 /\ Candidates(<< >>)

\* manage_playlist, one candidate: _get_playlist_items (the request
\* playlistItems.list; any error is caught and [] returned) and
\* _video_in_playlist.
ReadPlaylist ==
  /\ pc = "diff"
  /\ UNCHANGED aux
  /\ UNCHANGED << now, run, entries, videos, pidx, sweepItems, quota_exceeded,
                  playlists, nextId, db_videos, cache_videos, last_update,
                  executions, quotaAtSyncEnd, sweepQuotaErr, sweepIssued,
                  lastInsert, lastDelete, prevClean >>
  /\ \E o \in Outcomes :
       LET playlist_items == IF o = "ok" THEN playlists[config[ci].playlist_id] ELSE << >>
       IN
       /\ faults' = Spent(o)
       /\ issued' = Issue("list")
       /\ quotaErrSeen' = (quotaErrSeen \/ o = "quota")
       /\ stats' = IF o = "ok" THEN add_quota_usage(stats, "playlist_items", LIST_COST)
                               ELSE stats
       /\ IF ~video_in_playlist(videos[idx], playlist_items)
            THEN pc' = "insert" /\ UNCHANGED << ci, idx >>
            ELSE NextVideo

\* _add_to_playlist: the request playlistItems.insert, then
\* _get_video_details for the duration (answered by the database when it
\* holds the video) and add_video.  Any error is caught and logged.
AddToPlaylist ==
  /\ pc = "insert"
  /\ UNCHANGED << feedvars, swept, tokenErrSeen, cache_playlists, startup, exit_status, summary, deleted,
                  feedFailures, putLog, arg, res >>
  /\ UNCHANGED << now, run, entries, videos, pidx, sweepItems, quota_exceeded,
                  cache_videos, last_update, executions, quotaAtSyncEnd,
                  sweepQuotaErr, sweepIssued, lastDelete, prevClean >>
  /\ LET playlist_id == config[ci].playlist_id
         video_id == videos[idx]
         duration == parse_duration(VideoData[video_id].duration)
     IN
     /\ lastInsert' = [n |-> issued.insert + 1, playlist |-> playlist_id,
                       video |-> video_id, channel |-> ci,
                       member |-> \E i \in 1..Len(playlists[playlist_id]) :
                                    playlists[playlist_id][i].video = video_id,
                       quota_exceeded |-> quota_exceeded]
     /\ NextVideo
     /\ \E o \in Outcomes :
          IF o # "ok"
            THEN /\ faults' = Spent(o)
                 /\ failedInsert' = failedInsert \cup {<< run, playlist_id, video_id >>}
                 /\ issued' = Issue("insert")
                 /\ quotaErrSeen' = (quotaErrSeen \/ o = "quota")
                 /\ UNCHANGED << stats, playlists, nextId, db_videos, inserted >>
          ELSE
            /\ failedInsert' = failedInsert
            /\ inserted' = [inserted EXCEPT ![playlist_id] =
                              [n |-> @.n + 1, duration |-> @.duration + duration]]
            /\ playlists' = [playlists EXCEPT ![playlist_id] =
                               Append(@, Item(nextId, video_id, now))]
            /\ nextId' = nextId + 1
            /\ IF get_cached_video(db_videos, video_id, now)
                 THEN /\ stats' = add_video(add_quota_usage(stats, "add_video", INSERT_COST),
                                            playlist_id, duration)
                      /\ issued' = Issue("insert")
                      /\ UNCHANGED << faults, db_videos, quotaErrSeen >>
                 ELSE \E o2 \in Outcomes :
                        LET counted == add_quota_usage(
                                         add_quota_usage(stats, "add_video", INSERT_COST),
                                         "video_details", DETAILS_COST)
                        IN
                        /\ faults' = Spent(o2)
                        /\ issued' = [issued EXCEPT !.insert = @ + 1, !.details = @ + 1]
                        /\ quotaErrSeen' = (quotaErrSeen \/ o2 = "quota")
                        /\ IF o2 = "ok"
                             THEN /\ db_videos' = cache_video(db_videos, video_id, now)
                                  /\ stats' = add_video(counted, playlist_id, duration)
                             ELSE /\ db_videos' = db_videos
                                  /\ stats' = counted

sweep_always(flag) == TRUE

\* "if not manager.quota_exceeded" in main and "if self.quota_exceeded:
\* return" at the head of cleanup_playlists: whether the sweep starts.
sweep_allowed(flag) == ~flag

\* main between manage_playlist and the summary:
\* "if not manager.quota_exceeded: manager.cleanup_playlists()", and the
\* same test at the head of cleanup_playlists.
SyncEnd ==
  /\ pc = "sync_end"
  /\ UNCHANGED aux
  /\ pc' = IF sweep_allowed(quota_exceeded) THEN "sweep_playlist" ELSE "summary"
  /\ pidx' = 1
  /\ UNCHANGED << now, run, ci, entries, idx, videos, sweepItems,
                  quota_exceeded, stats, playlists, nextId, db_videos,
                  cache_videos, last_update, executions, faults, issued,
                  quotaErrSeen, quotaAtSyncEnd, sweepQuotaErr, sweepIssued,
                  lastInsert, lastDelete, prevClean >>

\* ----------------------------------------------------- cleanup_playlists
\* The loop head over playlist_limits and _get_playlist_items; after the
\* last playlist, save_stats.
SweepRead ==
  /\ pc = "sweep_playlist"
  /\ UNCHANGED aux
  /\ UNCHANGED << now, run, ci, entries, videos, quota_exceeded, playlists,
                  nextId, db_videos, cache_videos, last_update, quotaAtSyncEnd,
                  lastInsert, lastDelete, prevClean >>
  /\ IF pidx > Len(SweepOrder)
       THEN /\ executions' = Append(executions,
                                     [run |-> run, row |-> save_execution_stats(stats)])
            /\ pc' = "summary"
            /\ UNCHANGED << idx, pidx, sweepItems, stats, faults, issued,
                            quotaErrSeen, sweepQuotaErr, sweepIssued >>
       ELSE \E o \in Outcomes :
              LET playlist_items == IF o = "ok" THEN playlists[SweepOrder[pidx]] ELSE << >>
              IN
              /\ faults' = Spent(o)
              /\ issued' = Issue("list")
              /\ sweepIssued' = sweepIssued + 1
              /\ quotaErrSeen' = (quotaErrSeen \/ o = "quota")
              /\ sweepQuotaErr' = (sweepQuotaErr \/ o = "quota")
              /\ stats' = IF o = "ok"
                            THEN add_quota_usage(stats, "playlist_items", LIST_COST)
                            ELSE stats
              /\ executions' = executions
              /\ idx' = 1
              /\ sweepItems' = playlist_items
              /\ IF playlist_items = << >>
                   THEN pc' = "sweep_playlist" /\ pidx' = pidx + 1
                   ELSE pc' = "sweep_item" /\ pidx' = pidx

swept_snapshot(items) == items

\* The payload of update_cache(playlist_id, None, 'playlists') once a
\* playlist is swept: None, the empty sequence here.
swept_payload(items) == << >>

\* One item of the playlist: the quota test, the publication date, the age
\* test and _get_video_details.  The dictionary get_cached_video returns has
\* no snippet.channelTitle: reading it raises KeyError, which the handler of
\* (KeyError, ValueError) turns into "continue".  After the last item,
\* update_cache(playlist_id, None, 'playlists').
SweepItem ==
  /\ pc = "sweep_item"
  /\ UNCHANGED << quiet, tokenErrSeen, startup, exit_status, summary, inserted, deleted,
                  feedFailures, putLog, arg, res >>
  /\ UNCHANGED << now, run, ci, entries, videos, sweepItems, quota_exceeded,
                  playlists, nextId, cache_videos, executions, quotaAtSyncEnd,
                  lastInsert, lastDelete, prevClean >>
  /\ LET playlist_id == SweepOrder[pidx] IN
     IF idx > Len(sweepItems)
       THEN /\ last_update' = (playlist_id :> now) @@ last_update
            /\ cache_playlists' = (playlist_id :> swept_payload(sweepItems))
                                     @@ cache_playlists
            /\ pc' = "sweep_playlist"
            /\ pidx' = pidx + 1
            /\ idx' = 1
            /\ UNCHANGED << stats, db_videos, faults, issued, quotaErrSeen,
                            sweepQuotaErr, sweepIssued >>
     ELSE IF quota_exceeded
       THEN /\ pc' = "summary"
            /\ UNCHANGED << idx, pidx, stats, db_videos, last_update, faults,
                            cache_playlists,
                            issued, quotaErrSeen, sweepQuotaErr, sweepIssued >>
     ELSE
       LET item == sweepItems[idx]
           video_id == item.video
       IN
       /\ UNCHANGED << pidx, last_update, cache_playlists >>
       /\ IF ~published_at(item).parsed
               \/ ~too_old(item, playlist_id, now)
               \/ get_cached_video(db_videos, video_id, now)
            THEN /\ idx' = idx + 1
                 /\ pc' = "sweep_item"
                 /\ UNCHANGED << stats, db_videos, faults, issued, quotaErrSeen,
                                 sweepQuotaErr, sweepIssued >>
            ELSE \E o \in Outcomes :
                   LET counted == add_quota_usage(stats, "video_details", DETAILS_COST)
                   IN
                   /\ faults' = Spent(o)
                   /\ issued' = Issue("details")
                   /\ sweepIssued' = sweepIssued + 1
                   /\ quotaErrSeen' = (quotaErrSeen \/ o = "quota")
                   /\ sweepQuotaErr' = (sweepQuotaErr \/ o = "quota")
                   /\ IF o = "ok"
                        THEN /\ db_videos' = cache_video(db_videos, video_id, now)
                             /\ stats' = remove_video(counted, playlist_id,
                                           parse_duration(VideoData[video_id].duration),
                                           ChannelTitle(VideoData[video_id].channelId))
                             /\ idx' = idx
                             /\ pc' = "sweep_delete"
                        ELSE /\ db_videos' = db_videos
                             /\ stats' = counted
                             /\ idx' = idx + 1
                             /\ pc' = "sweep_item"

\* The request playlistItems.delete for the item and what follows it.  An
\* error whose text holds quotaExceeded sets quota_exceeded and returns from
\* cleanup_playlists; any other error is logged and the loop continues.
SweepDelete ==
  /\ pc = "sweep_delete"
  /\ UNCHANGED << feedvars, failedInsert, tokenErrSeen, cache_playlists, startup, exit_status, summary, inserted,
                  feedFailures, putLog, arg, res >>
  /\ UNCHANGED << now, run, ci, entries, videos, pidx, sweepItems, nextId,
                  db_videos, cache_videos, last_update, executions,
                  quotaAtSyncEnd, lastInsert, prevClean >>
  /\ LET playlist_id == SweepOrder[pidx]
         item == sweepItems[idx]
     IN
     /\ lastDelete' = [n |-> issued.delete + 1, playlist |-> playlist_id,
                       item |-> item, at |-> now]
     /\ \E o \in Outcomes :
          /\ faults' = Spent(o)
          /\ issued' = Issue("delete")
          /\ sweepIssued' = sweepIssued + 1
          /\ quotaErrSeen' = (quotaErrSeen \/ o = "quota")
          /\ sweepQuotaErr' = (sweepQuotaErr \/ o = "quota")
          /\ quota_exceeded' = (quota_exceeded \/ o = "quota")
          /\ playlists' = IF o = "ok"
                            THEN [playlists EXCEPT ![playlist_id] =
                                    SelectSeq(@, LAMBDA it : it.id # item.id)]
                            ELSE playlists
          /\ swept' = IF o = "ok"
                        THEN swept \cup {<< playlist_id, item.video >>}
                        ELSE swept
          /\ deleted' = IF o = "ok"
                          THEN [deleted EXCEPT ![playlist_id] =
                                  [n |-> @.n + 1,
                                   duration |-> @.duration
                                     + parse_duration(VideoData[item.video].duration)]]
                          ELSE deleted
          /\ stats' = IF o = "ok"
                        THEN update_channel_stats(
                               add_quota_usage(stats, "delete_video", DELETE_COST),
                               "Owner", "removed")
                        ELSE stats
          /\ IF o = "quota"
               THEN pc' = "summary" /\ idx' = idx
               ELSE pc' = "sweep_item" /\ idx' = idx + 1

\* ExecutionStats.get_summary: a section for every playlist of
\* playlist_names with its added and removed counts, and a section for every
\* channel that has an entry in channel_stats (update_channel_stats makes
\* the entry and adds 1 to it, so a channel has one when a count is not 0).
get_summary(s) ==
  [sent |-> TRUE,
   playlists |-> s.playlist_names,
   channels |-> { n \in Names : s.channel_stats[n].added + s.channel_stats[n].removed > 0 },
   added |-> [p \in Playlists |-> IF p \in s.playlist_names THEN s.added[p] ELSE 0],
   removed |-> [p \in Playlists |-> IF p \in s.playlist_names THEN s.removed[p] ELSE 0]]

\* main: get_summary, the notification of the summary, and the end of the
\* process: main returns, whether quota_exceeded is set or not.
Summary ==
  /\ pc = "summary"
  /\ UNCHANGED << quiet, tokenErrSeen, cache_playlists, startup, inserted, deleted, feedFailures,
                  putLog, arg, res >>
  /\ pc' = "exit"
  /\ summary' = get_summary(stats)
  /\ exit_status' = 0
  /\ UNCHANGED << now, run, ci, entries, idx, videos, pidx, sweepItems,
                  quota_exceeded, stats, playlists, nextId, db_videos,
                  cache_videos, last_update, executions, faults, issued,
                  quotaErrSeen, quotaAtSyncEnd, sweepQuotaErr, sweepIssued,
                  lastInsert, lastDelete, prevClean >>

\* The next run: a new process.  The database and the pickled cache
\* survive; YouTubeManager.__init__ makes the rest anew.
Restart ==
  /\ pc = "exit"
  /\ UNCHANGED << cache_playlists, putLog, arg, res >>
  /\ run < MaxRuns
  /\ run' = run + 1
  /\ pc' = "start"
  /\ ci' = 1
  /\ entries' = << >>
  /\ idx' = 1
  /\ videos' = << >>
  /\ pidx' = 1
  /\ sweepItems' = << >>
  /\ quota_exceeded' = FALSE
  /\ stats' = NewStats
  /\ last_update' = << >>
  /\ issued' = NoIssued
  /\ quotaErrSeen' = FALSE
  /\ quotaAtSyncEnd' = FALSE
  /\ sweepQuotaErr' = FALSE
  /\ sweepIssued' = 0
  /\ lastInsert' = NoInsert
  /\ lastDelete' = NoDelete
  /\ prevClean' = (faults = 0 /\ issued.delete = 0 /\ startup = "ok")
  /\ startup' = "ok"
  /\ exit_status' = -1
  /\ summary' = NoSummary
  /\ inserted' = NoWrites
  /\ deleted' = NoWrites
  /\ feedFailures' = 0
  /\ tokenErrSeen' = FALSE
  /\ UNCHANGED quiet
  /\ UNCHANGED << now, playlists, nextId, db_videos, cache_videos, executions, faults >>

\* An hour passes between two runs.
Tick ==
  /\ pc = "exit"
  /\ UNCHANGED aux
  /\ run < MaxRuns
  /\ now < MaxTime
  /\ now' = now + 1
  /\ UNCHANGED << run, pc, ci, entries, idx, videos, pidx, sweepItems,
                  quota_exceeded, stats, playlists, nextId, db_videos,
                  cache_videos, last_update, executions, faults, issued,
                  quotaErrSeen, quotaAtSyncEnd, sweepQuotaErr, sweepIssued,
                  lastInsert, lastDelete, prevClean >>

Next ==
  \/ Startup
  \/ BeginChannel
  \/ RssEntry
  \/ ApiSearch
  \/ ApiDetails
  \/ ReadPlaylist
  \/ AddToPlaylist
  \/ SyncEnd
  \/ SweepRead
  \/ SweepItem
  \/ SweepDelete
  \/ Summary
  \/ Restart
  \/ Tick

Spec == Init /\ [][Next]_vars

\* ------------------------------------------------- the clock during a run
\* An hour passes during a run, before a step that reads the clock
\* (get_cached_video, cache_video, is_cache_valid, the age test of the
\* sweep): the requests of a run take time.
Elapse ==
  /\ pc \in {"rss_entry", "api_search", "api_details", "insert", "sweep_item"}
  /\ now < MaxTime
  /\ now' = now + 1
  /\ UNCHANGED << run, pc, ci, entries, idx, videos, pidx, sweepItems,
                  quota_exceeded, stats, playlists, nextId, db_videos,
                  cache_videos, last_update, executions, faults, issued,
                  quotaErrSeen, quotaAtSyncEnd, sweepQuotaErr, sweepIssued,
                  lastInsert, lastDelete, prevClean >>
  /\ UNCHANGED aux

NextClock == Next \/ Elapse

\* The runs of main() with a clock that also advances during a run.
SpecClock == Init /\ [][NextClock]_vars

\* ------------------------------------------------------------ YouTubeCache
\* The transient cache by itself: update_cache and get_cached_data called
\* with any key and type, in one process, while the clock advances.
CacheKeys == {"chA", "P1"}
CacheTypes == {"videos", "playlists"}
CachePayloads == { << "v1" >>, << "v2" >> }
NoGet == [key |-> None, type |-> None, value |-> << >>, valid |-> FALSE]

\* YouTubeCache.cache_duration[cache_type]
cache_duration(type) == IF type = "videos" THEN VIDEOS_TTL ELSE PLAYLISTS_TTL

\* What the calls on the cache leave alone.
still == << run, pc, ci, entries, idx, videos, pidx, sweepItems, quota_exceeded,
           stats, playlists, nextId, db_videos, executions, faults, issued,
           quotaErrSeen, quotaAtSyncEnd, sweepQuotaErr, sweepIssued, lastInsert,
           lastDelete, prevClean, startup, exit_status, summary, inserted,
           deleted, feedFailures, tokenErrSeen >>

idle == << still, quiet >>

CacheInit == Program /\ arg = << None, None >> /\ res = NoGet

\* YouTubeCache.update_cache(key, data, cache_type): the payload is stored
\* under its type, the time under the key alone.
UpdateCache ==
  \E key \in CacheKeys, type \in CacheTypes, data \in CachePayloads :
    /\ cache_videos' = IF type = "videos" THEN (key :> data) @@ cache_videos
                                          ELSE cache_videos
    /\ cache_playlists' = IF type = "playlists" THEN (key :> data) @@ cache_playlists
                                                ELSE cache_playlists
    /\ last_update' = (key :> now) @@ last_update
    /\ putLog' = (<< key, type >> :> [data |-> data, at |-> now]) @@ putLog
    /\ UNCHANGED << now, arg, res >>
    /\ UNCHANGED idle

\* YouTubeCache.get_cached_data(key, cache_type), with the answer of
\* is_cache_valid for the same key and type.
GetCachedData ==
  \E key \in CacheKeys, type \in CacheTypes :
    /\ arg' = << key, type >>
    /\ res' = [key |-> key, type |-> type,
               value |-> get_cached_data(
                           IF type = "videos" THEN cache_videos ELSE cache_playlists,
                           last_update, key, now),
               valid |-> is_cache_valid(last_update, key, cache_duration(type), now)]
    /\ UNCHANGED << now, cache_videos, cache_playlists, last_update, putLog >>
    /\ UNCHANGED idle

\* An hour passes.
CacheElapse ==
  /\ now < CacheMaxTime
  /\ now' = now + 1
  /\ UNCHANGED << cache_videos, cache_playlists, last_update, putLog, arg, res >>
  /\ UNCHANGED idle

CacheNext == UpdateCache \/ GetCachedData \/ CacheElapse

CacheSpec == CacheInit /\ [][CacheNext]_vars

\* ------------------------------------------- _video_matches_criteria alone
\* The classification of one video resource by itself.  The inputs: a
\* description with or without a Short marker, a title with or without one,
\* a duration below, at or above 60 seconds, and a default thumbnail that is
\* taller than wide, wider, square or absent (no width, no height); fires is
\* 1 where the input makes the indicator fire.
DescriptionInputs == { [text |-> {}, fires |-> 0],
                       [text |-> {"#shorts"}, fires |-> 1],
                       [text |-> {"see", "/shorts/"}, fires |-> 1] }
TitleInputs == { [text |-> {"clip"}, fires |-> 0],
                 [text |-> {"clip", "#shorts"}, fires |-> 1] }
DurationInputs == { [d |-> Dur(-1, -1, 30), fires |-> 1],
                    [d |-> Dur(-1, 1, 0), fires |-> 1],
                    [d |-> Dur(-1, 1, 1), fires |-> 0],
                    [d |-> Dur(-1, 10, 0), fires |-> 0] }
ThumbnailInputs == { [w |-> 90, h |-> 120, fires |-> 1],
                     [w |-> 120, h |-> 90, fires |-> 0],
                     [w |-> 90, h |-> 90, fires |-> 0],
                     [w |-> 0, h |-> 0, fires |-> 0] }

ClipInputs ==
  { [video |-> Video("chA", t.text, de.text, du.d, th.w, th.h, 0, "ok"),
     k |-> de.fires + t.fires + du.fires + th.fires] :
      de \in DescriptionInputs, t \in TitleInputs,
      du \in DurationInputs, th \in ThumbnailInputs }

NoVerdict == [done |-> FALSE, accepted |-> FALSE]

ClassifyInit == Program /\ arg \in ClipInputs /\ res = NoVerdict

\* _video_matches_criteria(video, channel_config) for a channel with no
\* title pattern and no duration limits: the video is refused only if it is
\* taken for a Short.
Classify ==
  /\ ~res.done
  /\ res' = [done |-> TRUE, accepted |-> video_matches_criteria(arg.video, config[1])]
  /\ UNCHANGED << now, cache_videos, cache_playlists, last_update, putLog, arg >>
  /\ UNCHANGED idle

ClassifyNext == Classify

ClassifySpec == ClassifyInit /\ [][ClassifyNext]_vars

\* ------------------------------- _video_matches_criteria, all three tests
\* The classification of one video resource for one channel configuration.
\* The inputs: a title that holds the word of the pattern in lower case, in
\* capitals, or not at all; no pattern, or the pattern in lower or upper
\* case; a resource without contentDetails, or a duration below, at and above
\* the limits; a channel without and with duration limits; a video with two
\* Short markers (description and thumbnail) or none.
MatchTitles == { [text |-> {"news", "today"}, has |-> TRUE],
                 [text |-> {"News", "Today"}, has |-> TRUE],
                 [text |-> {"talk"}, has |-> FALSE] }
MatchPatterns == {None, "news", "NEWS"}
MatchDurations == { [present |-> FALSE, d |-> Dur(-1, -1, -1)],
                    [present |-> TRUE, d |-> Dur(-1, -1, 30)],
                    [present |-> TRUE, d |-> Dur(-1, 1, 59)],
                    [present |-> TRUE, d |-> Dur(-1, 2, 0)],
                    [present |-> TRUE, d |-> Dur(1, 0, 0)],
                    [present |-> TRUE, d |-> Dur(1, 0, 1)] }
MatchLimits == { [min |-> 0, max |-> NoMax], [min |-> 120, max |-> 3600] }
MatchMarkers == { [description |-> {}, w |-> 120, h |-> 90, fires |-> 0],
                  [description |-> {"#Shorts"}, w |-> 90, h |-> 120, fires |-> 2] }

\* A video resource without contentDetails.
without_details(video) == [f \in DOMAIN video \ {"duration"} |-> video[f]]

MatchInputs ==
  { [video |-> IF du.present
                 THEN Video("chB", t.text, m.description, du.d, m.w, m.h, 0, "ok")
                 ELSE without_details(
                        Video("chB", t.text, m.description, du.d, m.w, m.h, 0, "ok")),
     channel_config |-> [config[2] EXCEPT !.title_pattern = p,
                                          !.min_duration = l.min,
                                          !.max_duration = l.max],
     has |-> t.has,
     present |-> du.present,
     seconds |-> parse_duration(du.d),
     k |-> m.fires + (IF parse_duration(du.d) <= 60 THEN 1 ELSE 0)] :
      t \in MatchTitles, p \in MatchPatterns, du \in MatchDurations,
      l \in MatchLimits, m \in MatchMarkers }

MatchInit == Program /\ arg \in MatchInputs /\ res = NoVerdict

\* _video_matches_criteria(video_details, channel_config)
Match ==
  /\ ~res.done
  /\ res' = [done |-> TRUE,
             accepted |-> video_matches_criteria(arg.video, arg.channel_config)]
  /\ UNCHANGED << now, cache_videos, cache_playlists, last_update, putLog, arg >>
  /\ UNCHANGED idle

MatchNext == Match

MatchSpec == MatchInit /\ [][MatchNext]_vars

\* ----------------------------------------------------- NotificationManager
\* send_notification with its caller.  The inputs: the message, the level,
\* whether a Telegram bot and an e-mail configuration exist, and what the
\* environment does with each delivery that is attempted.
NotifyMessages == {"", "text"}
NotifyLevels == {"info", "critical"}
DeliveryOutcomes == {"ok", "fail"}
NotifyInputs ==
  [message : NotifyMessages, level : NotifyLevels, bot : BOOLEAN,
   email_config : BOOLEAN, telegram : DeliveryOutcomes, email : DeliveryOutcomes]

NoDelivery == [done |-> FALSE, raised |-> FALSE, telegram |-> FALSE,
               email |-> FALSE, logged |-> 0, exception |-> None]

\* NotificationManager._send_email: any exception of the delivery is caught
\* and logged.
send_email(outcome) ==
  [sent |-> outcome = "ok", logged |-> IF outcome = "ok" THEN 0 ELSE 1]

send_notification_unguarded(n) ==
  [raised |-> n.bot /\ n.telegram = "fail",
   telegram |-> n.bot /\ n.telegram = "ok",
   email |-> FALSE,
   logged |-> 0]

\* NotificationManager.send_notification: the Telegram message when there
\* is a bot, then the e-mail when the level is critical and e-mail is
\* configured.  An exception of the Telegram delivery leaves the try block
\* before the e-mail; the handler logs it and the function returns.
send_notification(n) ==
  IF n.bot /\ n.telegram = "fail"
    THEN [raised |-> FALSE, telegram |-> FALSE, email |-> FALSE, logged |-> 1]
  ELSE IF n.level = "critical" /\ n.email_config
    THEN [raised |-> FALSE, telegram |-> n.bot,
          email |-> send_email(n.email).sent, logged |-> send_email(n.email).logged]
  ELSE [raised |-> FALSE, telegram |-> n.bot, email |-> FALSE, logged |-> 0]

NotifyInit == Program /\ arg \in NotifyInputs /\ res = NoDelivery

\* A caller and its call of send_notification.  Level info is the end of
\* main: the summary is notified and main returns, or an exception of the
\* call reaches the last handler of main and the process exits with 1.
\* Level critical is _check_quota_error: quota_exceeded is set, the alert is
\* notified and QuotaExceededException is raised, unless the call raises
\* first.
Notify ==
  /\ ~res.done
  /\ LET r == send_notification(arg) IN
       /\ res' = [done |-> TRUE, raised |-> r.raised, telegram |-> r.telegram,
                  email |-> r.email, logged |-> r.logged,
                  exception |-> IF r.raised THEN "Exception"
                                ELSE IF arg.level = "critical"
                                  THEN "QuotaExceededException"
                                  ELSE None]
       /\ IF arg.level = "critical"
            THEN quota_exceeded' = TRUE /\ UNCHANGED << pc, exit_status >>
            ELSE /\ pc' = "exit"
                 /\ exit_status' = IF r.raised THEN 1 ELSE 0
                 /\ UNCHANGED quota_exceeded
  /\ UNCHANGED << now, run, ci, entries, idx, videos, pidx, sweepItems, stats,
                  playlists, nextId, db_videos, cache_videos, last_update,
                  executions, faults, issued, quotaErrSeen, quotaAtSyncEnd,
                  sweepQuotaErr, sweepIssued, lastInsert, lastDelete, prevClean,
                  cache_playlists, startup, summary, inserted, deleted,
                  feedFailures, putLog, tokenErrSeen, quiet, arg >>

NotifyNext == Notify

NotifySpec == NotifyInit /\ [][NotifyNext]_vars

\* ------------------------------ _get_videos_via_api: the detail lookups
\* The loop "for i in range(0, len(video_ids), 50)" by itself, on the ids
\* 1..n a search has matched, for every n up to MaxIds.  Each turn of the
\* loop is one videos.list request, which succeeds or raises.
BatchInputs == { [video_ids |-> [j \in 1..n |-> j]] : n \in 0..MaxIds }
BatchOutcomes == {"ok", "fail"}
NoBatch == [i |-> 0, batches |-> << >>, done |-> FALSE, failed |-> FALSE]

batch_overlapping(video_ids, i) ==
  SubSeq(video_ids, i + 1,
         IF i + BATCH_SIZE + 1 < Len(video_ids) THEN i + BATCH_SIZE + 1
                                                ELSE Len(video_ids))

\* video_ids[i:i+50]
batch(video_ids, i) ==
  SubSeq(video_ids, i + 1,
         IF i + BATCH_SIZE < Len(video_ids) THEN i + BATCH_SIZE ELSE Len(video_ids))

BatchInit == Program /\ arg \in BatchInputs /\ res = NoBatch

\* One turn of the loop: the batch, add_quota_usage and the request; an
\* exception of the request leaves the loop and the function.  After the
\* last turn the function returns.
LookupBatch ==
  /\ ~res.done
  /\ IF res.i >= Len(arg.video_ids)
       THEN /\ res' = [res EXCEPT !.done = TRUE]
            /\ UNCHANGED stats
       ELSE \E o \in BatchOutcomes :
              /\ res' = [i |-> res.i + BATCH_SIZE,
                         batches |-> Append(res.batches, batch(arg.video_ids, res.i)),
                         done |-> o = "fail",
                         failed |-> o = "fail"]
              /\ stats' = add_quota_usage(stats, "video_details", DETAILS_COST)
  /\ UNCHANGED << now, run, pc, ci, entries, idx, videos, pidx, sweepItems,
                  quota_exceeded, playlists, nextId, db_videos, cache_videos,
                  last_update, executions, faults, issued, quotaErrSeen,
                  quotaAtSyncEnd, sweepQuotaErr, sweepIssued, lastInsert,
                  lastDelete, prevClean, cache_playlists, startup, exit_status,
                  summary, inserted, deleted, feedFailures, putLog, tokenErrSeen,
                  quiet, arg >>

BatchNext == LookupBatch

BatchSpec == BatchInit /\ [][BatchNext]_vars

\* ------------------------------------------------- _parse_duration alone
\* The text of a duration as the sequence of its characters, a run of
\* digits being one element with its number.
Chr(c) == [c |-> c, n |-> 0]
Num(n) == [c |-> "0", n |-> n]

\* The text PT#H#M#S of the components of a duration.
encode(d) ==
  << Chr("P"), Chr("T") >>
  \o (IF d.H >= 0 THEN << Num(d.H), Chr("H") >> ELSE << >>)
  \o (IF d.M >= 0 THEN << Num(d.M), Chr("M") >> ELSE << >>)
  \o (IF d.S >= 0 THEN << Num(d.S), Chr("S") >> ELSE << >>)

\* Whether "(\d+)X" matches the text at position p.
designated(text, p, X) ==
  p + 1 <= Len(text) /\ text[p].c = "0" /\ text[p + 1].c = X

\* _parse_duration on a text: re.match of PT(?:(\d+)H)?(?:(\d+)M)?(?:(\d+)S)?
\* at the start of the text, nothing being required of what follows the
\* match; 0 when there is no match.
parse_duration_text(text) ==
  IF ~(Len(text) >= 2 /\ text[1].c = "P" /\ text[2].c = "T")
    THEN 0
  ELSE
    LET pH == 3
        hours == IF designated(text, pH, "H") THEN text[pH].n ELSE 0
        pM == IF designated(text, pH, "H") THEN pH + 2 ELSE pH
        minutes == IF designated(text, pM, "M") THEN text[pM].n ELSE 0
        pS == IF designated(text, pM, "M") THEN pM + 2 ELSE pM
        seconds == IF designated(text, pS, "S") THEN text[pS].n ELSE 0
    IN  hours * 3600 + minutes * 60 + seconds

\* The inputs: the texts of the durations with each component absent or
\* present, texts that are not of the shape PT#H#M#S, and a value that is
\* not a text (None).  shaped says whether the input is a duration of the
\* shape; H, M, S are its components (-1 when absent).
ParseComponents == { Dur(h, m, s) : h \in {-1, 0, 1, 2}, m \in {-1, 0, 5, 59}, s \in {-1, 0, 30} }
Unshaped ==
  { << >>,
    << Chr("P"), Num(1), Chr("D"), Chr("T"), Num(2), Chr("H") >>,
    << Chr("P"), Chr("T"), Num(1), Chr("H"), Chr("x") >>,
    << Chr("P"), Chr("T"), Num(1), Chr("M"), Num(30) >>,
    << Chr("P"), Chr("T"), Num(3), Chr("S"), Num(2), Chr("M") >>,
    << Chr("P"), Chr("T"), Num(5), Chr("X") >>,
    << Chr("p"), Chr("t"), Num(1), Chr("h") >>,
    << Num(1), Chr("H") >>,
    << Chr("P"), Chr("T"), Num(1), Chr("."), Num(5), Chr("S") >> }
ParseInputs ==
  { [text |-> encode(d), is_text |-> TRUE, shaped |-> TRUE, d |-> d] : d \in ParseComponents }
  \cup { [text |-> t, is_text |-> TRUE, shaped |-> FALSE, d |-> Dur(-1, -1, -1)] : t \in Unshaped }
  \cup { [text |-> << >>, is_text |-> FALSE, shaped |-> FALSE, d |-> Dur(-1, -1, -1)] }

NoParse == [done |-> FALSE, raised |-> FALSE, value |-> 0]

ParseInit == Program /\ arg \in ParseInputs /\ res = NoParse

\* _parse_duration(duration_str): re.match raises TypeError for a value
\* that is not a text.
Parse ==
  /\ ~res.done
  /\ res' = [done |-> TRUE,
             raised |-> ~arg.is_text,
             value |-> IF arg.is_text THEN parse_duration_text(arg.text) ELSE 0]
  /\ UNCHANGED << now, cache_videos, cache_playlists, last_update, putLog, arg >>
  /\ UNCHANGED idle

ParseNext == Parse

ParseSpec == ParseInit /\ [][ParseNext]_vars

\* ------------------------------------------------- format_duration, both
\* The two functions that format a duration, on every number of seconds up
\* to MaxSeconds and on some durations of a day and more.  The text
\* f"{hours}h {minutes}m" is the sequence of its characters, a number being
\* one element.
FormatInputs == 0..MaxSeconds \cup {86399, 86400, 90061, 359999, 360000}

format_duration_rounded(seconds) ==
  << Num(seconds \div 3600), Chr("h"), Chr(" "),
     Num(((seconds % 3600) + 30) \div 60), Chr("m") >>

\* ExecutionStats.format_duration
format_duration(seconds) ==
  LET hours == seconds \div 3600
      minutes == (seconds % 3600) \div 60
  IN  << Num(hours), Chr("h"), Chr(" "), Num(minutes), Chr("m") >>

\* DatabaseManager._format_duration
db_format_duration(seconds) ==
  LET hours == seconds \div 3600
      minutes == (seconds % 3600) \div 60
  IN  << Num(hours), Chr("h"), Chr(" "), Num(minutes), Chr("m") >>

NoFormat == [done |-> FALSE, stats_text |-> << >>, db_text |-> << >>]

FormatInit == Program /\ arg \in FormatInputs /\ res = NoFormat

\* format_duration(seconds) and _format_duration(seconds)
Format ==
  /\ ~res.done
  /\ res' = [done |-> TRUE,
             stats_text |-> format_duration(arg),
             db_text |-> db_format_duration(arg)]
  /\ UNCHANGED << now, cache_videos, cache_playlists, last_update, putLog, arg >>
  /\ UNCHANGED idle

FormatNext == Format

FormatSpec == FormatInit /\ [][FormatNext]_vars

\* ------------------------------------------------------------------ claims

\* C1: once quota_exceeded is set, the run issues no playlist insert and no
\* delete, and starts the discovery of no further channel.
C1_NoWorkAfterQuota ==
  [][(quota_exceeded /\ run' = run) =>
       /\ issued'.insert = issued.insert
       /\ issued'.delete = issued.delete
       /\ ~(pc = "channel" /\ pc' \in {"rss_entry", "api_search"})]_vars

\* C2: when a request has failed with quotaExceeded, quota_exceeded is set
\* before the next request is issued (every action ends before its next
\* request, so the flag is set in every state that follows the failure).
C2_QuotaErrorSetsFlag == quotaErrSeen => quota_exceeded

\* C3: the units recorded over all categories never exceed the ceiling.
C3_WithinCeiling == total_quota(stats) <= QuotaCeiling

\* C4: an insert is issued only for a video that matches the criteria of the
\* channel it was discovered for.
C4_InsertOnlyIfMatches ==
  lastInsert.n > 0 =>
    video_matches_criteria(VideoData[lastInsert.video], config[lastInsert.channel])

\* C5: no insert is issued for a video that is, at that moment, a member of
\* the target playlist.
C5_NoInsertOfMember == lastInsert.n > 0 => ~lastInsert.member

\* C6: a sync pass that follows a pass in which every request succeeded and
\* nothing was deleted (the same candidates, the playlists as the first pass
\* left them) issues no insert.
C6_SecondPassNoInsert == (run > 1 /\ prevClean) => issued.insert = 0

\* C7: when quota_exceeded is set at the end of the sync pass, the sweep of
\* that run issues no request (no playlist read, no video lookup, no delete).
C7_NoSweepAfterQuota == quotaAtSyncEnd => sweepIssued = 0

\* The run ended with quota_exceeded set at the end of its sync pass.
C7_Witness == quotaAtSyncEnd /\ pc = "exit" /\ issued.search > 0

\* C8: after a request of the sweep failed with quotaExceeded, the run
\* issues no further request.
C8_SweepStopsOnQuota ==
  [][(sweepQuotaErr /\ run' = run) => issued' = issued]_vars

\* C9: when no request has failed, the sweep that has run to its end has
\* left, in the playlists of the retention configuration, no item whose
\* publication date parses and whose age exceeds the retention window.
C9_OldItemsDeleted ==
  (pc = "summary" /\ faults = 0 /\ ~quotaAtSyncEnd) =>
    \A p \in DOMAIN playlist_limits :
      \A i \in 1..Len(playlists[p]) :
        LET item == playlists[p][i]
            date == VideoData[item.video].date
            published == IF date = "ok" THEN VideoData[item.video].published
                                        ELSE item.addedAt
        IN  ~(date # "bad" /\ now - published > playlist_limits[p])

\* C10: the sweep requests the deletion of an item only when the item is in
\* a playlist of the retention configuration, its publication date was
\* determined and its age is greater than the retention window of that
\* playlist; and no item ever leaves a playlist that is not in the
\* retention configuration.
C10_DeletesOnlyExpired ==
  /\ [](lastDelete.n > 0 =>
          LET item == lastDelete.item
              date == VideoData[item.video].date
              published == IF date = "ok" THEN VideoData[item.video].published
                                          ELSE item.addedAt
          IN  /\ lastDelete.playlist \in {"P1", "P2"}
              /\ date # "bad"
              /\ ~(lastDelete.at - published <= playlist_limits[lastDelete.playlist]))
  /\ [][\A p \in Playlists \ {"P1", "P2"} :
          \A i \in 1..Len(playlists[p]) :
            \E j \in 1..Len(playlists'[p]) : playlists'[p][j] = playlists[p][i]]_vars

\* The sweep has deleted an item by its age.
C10_Witness ==
  /\ lastDelete.n > 0
  /\ stats.quota_usage.delete_video > 0
  /\ \A i \in 1..Len(playlists[lastDelete.playlist]) :
       playlists[lastDelete.playlist][i].id # lastDelete.item.id

\* C11: outside the step between remove_video and the delete request, the
\* removed count of every playlist is the number of delete requests that
\* succeeded on it in this run, and its removed duration is the sum of the
\* durations of the videos they deleted.
C11_RemovedCountsDeletes ==
  pc # "sweep_delete" =>
    \A p \in Playlists :
      /\ stats.removed[p] = deleted[p].n
      /\ stats.duration_removed[p] = deleted[p].duration

\* C12: the added count of every playlist is the number of insert requests
\* that succeeded on it in this run, and its added duration is the sum of
\* the durations of the videos they inserted.
C12_AddedCountsInserts ==
  \A p \in Playlists :
    /\ stats.added[p] = inserted[p].n
    /\ stats.duration_added[p] = inserted[p].duration

\* What a get of (key, type) at time t answers by the rule of C13: the
\* payload of the last put of (key, type) when less than the lifetime of the
\* type has passed since that put, else nothing.
Fresh(log, key, type, t) ==
  IF << key, type >> \in DOMAIN log
       /\ t - log[<< key, type >>].at < (IF type = "videos" THEN 1 ELSE 2)
    THEN log[<< key, type >>].data
    ELSE << >>

\* C13: every get_cached_data(key, type) answers the payload last put for
\* (key, type) if less than the lifetime of the type (1 hour for videos, 2
\* hours for playlists) has passed since that put, and nothing otherwise.
C13_GetWithinTtl ==
  [][res' # res => res'.value = Fresh(putLog, res'.key, res'.type, now)]_vars

\* The fields of a video record its callers read: the classification reads
\* title, description, thumbnails and duration, the sweep reads duration and
\* channelTitle, manage_playlist reads id.
ReadFields == {"id", "title", "description", "thumbnails", "duration", "channelTitle"}

\* C14: for every video the database holds and whose expiry time has not
\* passed, get_cached_video returns the payload that was stored: every field
\* the callers read is in the record returned, with the value of the video
\* resource that cache_video was given.
C14_RoundTrip ==
  \A v \in DOMAIN db_videos :
    get_cached_video(db_videos, v, now) =>
      \A f \in ReadFields :
        /\ f \in DOMAIN cached_video(cache_row(video_resource(v)))
        /\ cached_video(cache_row(video_resource(v)))[f] = video_resource(v)[f]

\* C15: the cache never holds a membership snapshot of a playlist (the only
\* entry written for a playlist is the empty one that follows its sweep), and
\* every membership check issues a playlistItems.list request and, when the
\* request succeeds, decides on the playlist as it is at that moment, the
\* inserts and deletes made before included.
C15_MembershipAlwaysFetched ==
  /\ [](\A p \in DOMAIN cache_playlists : cache_playlists[p] = << >>)
  /\ [][pc = "diff" =>
          /\ issued'.list = issued.list + 1
          /\ faults' = faults =>
                (pc' = "insert" <=>
                   ~video_in_playlist(videos[idx], playlists[config[ci].playlist_id]))]_vars

\* A membership check on a playlist that follows a successful insert into
\* it in the same run, in a process that finds the cache entry of a swept
\* playlist.
C15_Witness ==
  /\ pc = "insert"
  /\ idx > 1
  /\ inserted[config[ci].playlist_id].n > 0
  /\ video_in_playlist(videos[idx - 1], playlists[config[ci].playlist_id])
  /\ DOMAIN cache_playlists # {}

\* C16: when a run that started the synchronisation has ended, the table
\* executions holds exactly one row written by that run, and the totals of
\* the row are those of the counters of the run.
C16_StatsPersistedOnce ==
  (pc = "exit" /\ startup = "ok") =>
    LET rows == { i \in 1..Len(executions) : executions[i].run = run }
    IN  /\ Cardinality(rows) = 1
        /\ \A i \in rows : executions[i].row = save_execution_stats(stats)

\* C17: a run in which quota_exceeded was set ends with a summary that was
\* sent to the notification; when the inserts of the run were all made
\* before quota_exceeded was set, the summary has a section with the added
\* count of every playlist an insert succeeded on and a section for the
\* channel of that playlist; and it has a section for every playlist a
\* delete succeeded on.
C17_SummaryAfterQuota ==
  (pc = "exit" /\ quota_exceeded) =>
    /\ summary.sent
    /\ \A i \in { j \in 1..Len(config) : config[j].playlist_id # None } :
         (inserted[config[i].playlist_id].n > 0 /\ ~lastInsert.quota_exceeded) =>
           /\ config[i].playlist_id \in summary.playlists
           /\ summary.added[config[i].playlist_id] = inserted[config[i].playlist_id].n
           /\ config[i].channel_name \in summary.channels
    /\ \A p \in Playlists : deleted[p].n > 0 => p \in summary.playlists

\* C18: when the process has ended, its exit status is not zero if and only
\* if the run met a run-level error: quota_exceeded was set, the credentials
\* were refused, or there was no connection at startup.
C18_ExitStatus ==
  pc = "exit" => (exit_status # 0 <=> (quota_exceeded \/ startup # "ok"))

\* C19: the failed-feed counter of the run is the number of feed requests of
\* the run that failed: it is incremented once when the request or the parse
\* of a feed fails, and in no other case.
C19_FailedFeedCounter == stats.rss_stats.failed_rss_feeds = feedFailures

\* C20: a video is taken for a Short (refused by a channel without pattern
\* and duration limits) if and only if at least 3 of the 4 indicators fire,
\* whichever they are.
C20_ShortIffThreeIndicators ==
  res.done => (~res.accepted <=> arg.k >= 3)

\* A video with exactly 3 indicators, the thumbnail among them, was refused.
C20_Witness ==
  /\ res.done
  /\ arg.k = 3
  /\ arg.video.height > arg.video.width
  /\ ~res.accepted

\* C21: _video_matches_criteria answers true if and only if no pattern is
\* configured or the pattern is in the title whatever the case, and the
\* duration is present and within [min_duration, max_duration], bounds
\* included, and fewer than 3 Short indicators fire; a video whose duration
\* is missing is refused.
C21_MatchesIff ==
  res.done =>
    (res.accepted <=>
       /\ (arg.channel_config.title_pattern = None \/ arg.has)
       /\ arg.present
       /\ arg.channel_config.min_duration <= arg.seconds
       /\ arg.seconds <= arg.channel_config.max_duration
       /\ arg.k < SHORT_THRESHOLD)

\* C22: the step of manage_playlist on a channel without playlist_id issues
\* no request, starts no discovery, changes no counter, no flag and no
\* playlist, and goes on to the next channel; and when manage_playlist has
\* returned, every channel that has a playlist and a playlist name, those
\* after the skipped one included, has been processed (its playlist is
\* registered in the statistics).
C22_SkipWithoutPlaylist ==
  /\ [][(pc = "channel" /\ ci <= Len(config) /\ config[ci].playlist_id = None) =>
          /\ pc' = "channel"
          /\ ci' = ci + 1
          /\ issued' = issued
          /\ faults' = faults
          /\ stats' = stats
          /\ playlists' = playlists
          /\ quota_exceeded' = quota_exceeded]_vars
  /\ [](pc = "sync_end" =>
          \A i \in 1..Len(config) :
            (config[i].playlist_id # None /\ config[i].playlist_name # None) =>
              config[i].playlist_id \in stats.playlist_names)

\* The discovery of the channel that follows a channel without playlist_id
\* has started.
C22_Witness ==
  /\ pc \in {"rss_entry", "api_search"}
  /\ ci > 1
  /\ config[ci - 1].playlist_id = None

\* The place of a video in the sequence in which a channel's videos are
\* discovered (the feed, of which the answer of the search is a part).
Place(channel, v) ==
  CHOOSE i \in 1..Len(Feed[config[channel].channel_id]) :
    Feed[config[channel].channel_id][i] = v

\* C23: within a run the channel being processed only moves from one
\* channel of the configuration to the next; every request of the sync pass
\* is issued for the channel being processed, so an insert request is for a
\* channel not before that of the insert request before it; and two
\* successive insert requests for the same channel are for videos in the
\* order of their discovery.
C23_ChannelsAndInsertsInOrder ==
  [][/\ run' = run => ci' \in {ci, ci + 1}
     /\ issued'.insert > issued.insert =>
          /\ lastInsert'.channel = ci
          /\ lastInsert'.video \in
               { Feed[config[ci].channel_id][i] :
                   i \in 1..Len(Feed[config[ci].channel_id]) }
          /\ lastInsert.channel <= ci
          /\ lastInsert.channel = ci =>
               Place(ci, lastInsert.video) < Place(ci, lastInsert'.video)]_vars

\* Two insert requests were issued for the same channel, and an insert
\* request for a later channel after them.
C23_Witness ==
  /\ issued.insert >= 3
  /\ inserted["P1"].n >= 2
  /\ lastInsert.channel > 1

\* C24: send_notification returns without raising for every message, level
\* and configuration, whatever becomes of the deliveries; its caller goes on
\* as after a delivery that succeeded: main ends with status 0, and
\* _check_quota_error has set quota_exceeded and raises
\* QuotaExceededException; the statistics are untouched.
C24_DeliveryFailureContained ==
  res.done =>
    /\ ~res.raised
    /\ stats = NewStats
    /\ arg.level = "info" =>
         (pc = "exit" /\ exit_status = 0 /\ ~quota_exceeded /\ res.exception = None)
    /\ arg.level = "critical" =>
         (quota_exceeded /\ res.exception = "QuotaExceededException")

\* A Telegram delivery has failed, or an e-mail delivery after a Telegram
\* message that was delivered.
C24_Witness ==
  /\ res.done
  /\ res.logged = 1
  /\ \/ arg.bot /\ arg.telegram = "fail" /\ ~res.telegram
     \/ arg.level = "critical" /\ res.telegram /\ arg.email = "fail" /\ ~res.email

\* C25: the saved quota recorded is one unit for each video obtained
\* through the feed, so never more than the number of videos the run took
\* from feeds; total_saved is the sum of the counters of the operations; and
\* a step of a run that records saved quota leaves quota_usage as it was.
C25_SavedQuotaPerFeedVideo ==
  /\ [](stats.quota_saved.total_saved <= stats.rss_stats.videos_from_rss)
  /\ [](stats.quota_saved.total_saved =
          stats.quota_saved.search_operations + stats.quota_saved.video_details)
  /\ [][(run' = run /\ stats'.quota_saved # stats.quota_saved) =>
          stats'.quota_usage = stats.quota_usage]_vars

RECURSIVE Concatenation(_)
\* The concatenation of a sequence of sequences.
Concatenation(seqs) ==
  IF seqs = << >> THEN << >>
  ELSE Concatenation(SubSeq(seqs, 1, Len(seqs) - 1)) \o seqs[Len(seqs)]

\* C26: every detail request carries between 1 and 50 ids; the requests
\* made so far carry, one after the other, the first ids the search
\* matched, in order; when no request has failed and the loop has ended,
\* there were ceil(n/50) requests (none for n = 0), recorded one unit each,
\* and they carry exactly the n ids.
C26_DetailBatches ==
  LET n == Len(arg.video_ids)
      all == Concatenation(res.batches)
  IN  /\ \A b \in 1..Len(res.batches) :
           Len(res.batches[b]) >= 1 /\ Len(res.batches[b]) <= 50
      /\ Len(all) <= n
      /\ all = SubSeq(arg.video_ids, 1, Len(all))
      /\ stats.quota_usage.video_details = Len(res.batches)
      /\ (res.done /\ ~res.failed) =>
           /\ Len(res.batches) = (n + 49) \div 50
           /\ all = arg.video_ids

\* 101 ids were looked up in 3 requests, the last with one id.
C26_Witness ==
  /\ res.done
  /\ ~res.failed
  /\ Len(arg.video_ids) = 101
  /\ Len(res.batches) = 3
  /\ Len(res.batches[3]) = 1

\* C27: _parse_duration never raises; for a duration of the shape PT#H#M#S
\* it returns hours*3600 + minutes*60 + seconds, an absent component
\* counting as 0; for every other input it returns 0.
C27_ParseDuration ==
  res.done =>
    /\ ~res.raised
    /\ res.value =
         IF arg.shaped
           THEN (IF arg.d.H >= 0 THEN arg.d.H ELSE 0) * 3600
                + (IF arg.d.M >= 0 THEN arg.d.M ELSE 0) * 60
                + (IF arg.d.S >= 0 THEN arg.d.S ELSE 0)
           ELSE 0

\* C28: the text of format_duration is "<h>h <m>m" with 0 <= m < 60 and
\* h*3600 + m*60 <= seconds < h*3600 + m*60 + 60, and _format_duration of
\* the database gives the same text.
C28_FormatTruncates ==
  res.done =>
    /\ Len(res.stats_text) = 5
    /\ << res.stats_text[2].c, res.stats_text[3].c, res.stats_text[5].c >>
         = << "h", " ", "m" >>
    /\ LET h == res.stats_text[1].n
           m == res.stats_text[4].n
       IN  /\ 0 <= m /\ m < 60
           /\ h * 3600 + m * 60 <= arg
           /\ arg < h * 3600 + m * 60 + 60
    /\ res.db_text = res.stats_text

\* One second less than two hours is formatted as 1h 59m.
C28_Witness ==
  /\ res.done
  /\ arg = 7199
  /\ res.stats_text[1].n = 1
  /\ res.stats_text[4].n = 59

\* C29: at every point of a run the units recorded for a category are the
\* unit cost of the category times the requests of the category issued so
\* far in the run, failed requests included.
C29_UsageCountsRequests ==
  /\ stats.quota_usage.search = SEARCH_COST * issued.search
  /\ stats.quota_usage.video_details = DETAILS_COST * issued.details
  /\ stats.quota_usage.playlist_items = LIST_COST * issued.list
  /\ stats.quota_usage.add_video = INSERT_COST * issued.insert
  /\ stats.quota_usage.delete_video = DELETE_COST * issued.delete

\* C30: a candidate the database validly holds is skipped by the discovery
\* of both paths.  On the feed path the step on such an entry issues no
\* request and adds nothing to the candidates; on the search path the step
\* that looks up the matched ids returns none of those the database holds,
\* and issues no lookup when it holds them all.
C30_CachedCandidateSkipped ==
  [][/\ (pc = "rss_entry" /\ get_cached_video(db_videos, entries[idx], now)) =>
          (issued' = issued /\ videos' = videos)
     /\ pc = "api_details" =>
          /\ \A i \in 1..Len(entries) :
               get_cached_video(db_videos, entries[i], now) =>
                 \A j \in 1..Len(videos') : videos'[j] # entries[i]
          /\ (\A i \in 1..Len(entries) : get_cached_video(db_videos, entries[i], now))
               => issued' = issued]_vars

\* C31: a membership check that follows another check of the same playlist
\* in the same run (the clock has not moved), no insert of the run having
\* succeeded on the playlist, sends no playlistItems.list request: the
\* answer of the first check is reused.
C31_MembershipReadOnce ==
  [][(pc = "diff" /\ idx > 1 /\ inserted[config[ci].playlist_id].n = 0) =>
       issued'.list = issued.list]_vars

\* C32: a step whose request fails with an error that is not a quota error
\* (a fault is spent and no quota error has been seen in the run) skips the
\* item of the request and goes on: a failed detail lookup of a feed entry
\* adds no candidate; a failed search or batch lookup returns no candidate
\* and the next channel follows; a failed membership read is followed by no
\* insert of the candidate; a failed lookup of the sweep is followed by the
\* next item, with no delete; a failed playlist read of the sweep is
\* followed by the next playlist.
C32_FailedLookupSkipsItem ==
  [][(faults' = faults + 1 /\ ~quotaErrSeen') =>
       /\ pc = "rss_entry" =>
            (videos' = videos /\ pc' \in {"rss_entry", "diff", "channel"})
       /\ pc \in {"api_search", "api_details"} =>
            (videos' = << >> /\ pc' = "channel" /\ ci' = ci + 1)
       /\ pc = "diff" => pc' \in {"diff", "channel"}
       /\ pc = "sweep_item" =>
            (pc' = "sweep_item" /\ idx' = idx + 1 /\ issued'.delete = issued.delete)
       /\ pc = "sweep_playlist" =>
            (pc' = "sweep_playlist" /\ pidx' = pidx + 1)]_vars

\* C33: once _check_token_error has raised TokenExpiredException in a run,
\* the run is over: the process has ended with a status that is not 0, so no
\* further channel is processed and the sweep does not run.
C33_TokenErrorEndsRun ==
  tokenErrSeen => (pc = "exit" /\ exit_status # 0)

\* C34: in the sweep the age of an item is measured from
\* contentDetails.videoPublishedAt when the item has it and from
\* snippet.publishedAt otherwise.  An item whose date cannot be parsed, or
\* whose record lacks a field the code reads (the channelTitle of details
\* served by the database), is skipped: no request, no change of the
\* statistics, no delete, and the next item follows.  After the last item
\* the next playlist follows.
C34_SweepDates ==
  [][pc = "sweep_item" =>
       IF idx > Len(sweepItems)
         THEN pc' = "sweep_playlist" /\ pidx' = pidx + 1
       ELSE IF quota_exceeded
         THEN TRUE
       ELSE
         LET item == sweepItems[idx]
             data == VideoData[item.video]
             limit == playlist_limits[SweepOrder[pidx]]
             lacking == get_cached_video(db_videos, item.video, now)
             skipped == /\ stats' = stats
                        /\ issued' = issued
                        /\ playlists' = playlists
                        /\ pc' = "sweep_item"
                        /\ idx' = idx + 1
                        /\ pidx' = pidx
         IN
         /\ data.date = "ok" =>
              (skipped <=> (now - data.published <= limit \/ lacking))
         /\ data.date = "absent" =>
              (skipped <=> (now - item.addedAt <= limit \/ lacking))
         /\ data.date = "bad" => skipped]_vars

\* A sweep that deleted v5 by its videoPublishedAt and v7 by its
\* snippet.publishedAt, and has passed over v8, whose date does not parse.
C34_Witness ==
  /\ pc = "sweep_item"
  /\ pidx = 2
  /\ idx = 3
  /\ Len(sweepItems) = 2
  /\ sweepItems[2].video = "v8"
  /\ deleted["P1"].n = 1
  /\ deleted["P2"].n = 1
  /\ lastDelete.item.video = "v7"
  /\ \E i \in 1..Len(playlists["P2"]) : playlists["P2"][i].video = "v8"

\* C35: when the passes of a run are over, the 'added' counter of every
\* channel is the number of its videos inserted in its playlist in the run
\* and its 'removed' counter is the number of its videos the sweep deleted
\* (every video of a playlist here is a video of the playlist's channel).
C35_ChannelCounters ==
  pc = "summary" =>
    \A j \in { k \in 1..Len(config) : config[k].playlist_id # None } :
      /\ stats.channel_stats[config[j].channel_name].added
           = inserted[config[j].playlist_id].n
      /\ stats.channel_stats[config[j].channel_name].removed
           = deleted[config[j].playlist_id].n

\* Every counter of the statistics t is at least the same counter of s.
AtLeast(t, s) ==
  /\ \A p \in Playlists :
       /\ t.added[p] >= s.added[p]
       /\ t.removed[p] >= s.removed[p]
       /\ t.duration_added[p] >= s.duration_added[p]
       /\ t.duration_removed[p] >= s.duration_removed[p]
  /\ \A k \in DOMAIN s.quota_usage : t.quota_usage[k] >= s.quota_usage[k]
  /\ \A k \in DOMAIN s.quota_saved : t.quota_saved[k] >= s.quota_saved[k]
  /\ \A k \in DOMAIN s.rss_stats : t.rss_stats[k] >= s.rss_stats[k]
  /\ \A n \in Names :
       /\ t.channel_stats[n].added >= s.channel_stats[n].added
       /\ t.channel_stats[n].removed >= s.channel_stats[n].removed
       /\ t.video_origins[n] >= s.video_origins[n]
  /\ \A k \in DOMAIN s.totals : t.totals[k] >= s.totals[k]

\* C36: the statistics of a run only grow: every counter is at least 0 and
\* no step of the run makes a counter smaller; the totals are the sums over
\* the playlists of the counts and of the durations, added and removed.
C36_StatsAppendOnly ==
  /\ [](/\ AtLeast(stats, NewStats)
        /\ stats.totals.videos_added = save_execution_stats(stats).videos_added
        /\ stats.totals.videos_removed = save_execution_stats(stats).videos_removed
        /\ stats.totals.duration_added = save_execution_stats(stats).duration_added
        /\ stats.totals.duration_removed = save_execution_stats(stats).duration_removed)
  /\ [][run' = run => AtLeast(stats', stats)]_vars

\* Statistics with additions in two playlists, a removal, a channel entry
\* and saved quota.
C36_Witness ==
  /\ stats.added["P1"] >= 1
  /\ stats.added["P2"] >= 1
  /\ stats.totals.videos_added >= 2
  /\ stats.totals.videos_removed >= 1
  /\ stats.totals.duration_removed > 0
  /\ stats.channel_stats["Owner"].removed >= 1
  /\ stats.quota_saved.total_saved > 0
  /\ stats.quota_usage.delete_video > 0

\* C37: a put for (key, A) leaves an entry stored for the same key under
\* another type B as it was: what get_cached_data(key, B) and is_cache_valid(key, B)
\* answer is the same before and after the put (the clock does not move in
\* the step), so an entry of (key, B) that had expired stays absent.
C37_PutLeavesOtherType ==
  [][\A key \in CacheKeys, B \in CacheTypes :
       (/\ now' = now
        /\ << key, B >> \in DOMAIN putLog
        /\ \E A \in CacheTypes \ {B} :
              /\ << key, A >> \in DOMAIN putLog'
              /\ << key, A >> \in DOMAIN putLog => putLog'[<< key, A >>] # putLog[<< key, A >>])
       =>
         /\ get_cached_data(IF B = "videos" THEN cache_videos' ELSE cache_playlists',
                            last_update', key, now')
              = get_cached_data(IF B = "videos" THEN cache_videos ELSE cache_playlists,
                                last_update, key, now)
         /\ is_cache_valid(last_update', key, cache_duration(B), now')
              = is_cache_valid(last_update, key, cache_duration(B), now)]_vars

\* ------------------------------------------------- YouTubeRSSManager
\* self._cache_duration = 3600 seconds, in hours
RSS_CACHE_DURATION == 1

RssChannels == {"chA", "chB"}

\* An entry of a parsed feed: its id holds a video id or not, and its
\* published_parsed is a date or not.
Entry(v) == [id |-> v, dated |-> TRUE]
RawFeeds ==
  { << >>,
    << Entry("v1") >>,
    << Entry("v1"), Entry("v2") >>,
    << [id |-> None, dated |-> TRUE], Entry("v1") >>,
    << Entry("v2"), [id |-> "v1", dated |-> FALSE] >> }

\* How the request and the parse of a feed can go: an answer that parses,
\* a requests.RequestException (no connection, timeout, raise_for_status),
\* an answer feedparser flags with bozo_exception, any other exception.
FetchOutcomes == {"ok", "request", "bozo", "error"}

\* The handlers of get_channel_feed: "except requests.RequestException"
\* takes "request" and "except Exception" takes every other exception.
caught(o) == o \in {"request"} \cup {"error"}

\* The loop over feed.entries: an entry without a video id or without a
\* date is passed over.
rss_entries(raw) ==
  LET kept == SelectSeq(raw, LAMBDA e : e.id # None /\ e.dated)
  IN  [i \in 1..Len(kept) |-> kept[i].id]

rss_is_cache_never_valid(cache, lu, channel_id, t) == FALSE

\* YouTubeRSSManager._is_cache_valid
rss_is_cache_valid(cache, lu, channel_id, t) ==
  /\ channel_id \in DOMAIN cache
  /\ channel_id \in DOMAIN lu
  /\ (t - lu[channel_id]) < RSS_CACHE_DURATION

\* YouTubeRSSManager.get_channel_feed: what it returns, the cache and the
\* times it leaves, and how the call went ("cached": no request was made).
get_channel_feed(cache, lu, channel_id, t, o, raw) ==
  IF rss_is_cache_valid(cache, lu, channel_id, t)
    THEN [entries |-> cache[channel_id], cache |-> cache, last_cache_update |-> lu,
          outcome |-> "cached", raised |-> FALSE]
  ELSE IF o = "ok"
    THEN [entries |-> rss_entries(raw),
          cache |-> (channel_id :> rss_entries(raw)) @@ cache,
          last_cache_update |-> (channel_id :> t) @@ lu,
          outcome |-> o, raised |-> FALSE]
  ELSE [entries |-> << >>, cache |-> cache, last_cache_update |-> lu,
        outcome |-> o, raised |-> (o # "bozo" /\ ~caught(o))]

NoFeedCall == [channel |-> None, entries |-> << >>, outcome |-> None, raised |-> FALSE]

\* What the calls on the feed manager leave alone.
feedidle == << still, cache_videos, cache_playlists, last_update, putLog, swept, failedInsert >>

RssInit == Program /\ arg = None /\ res = NoFeedCall

\* A call of get_channel_feed(channel_id).
GetChannelFeed ==
  \E channel_id \in RssChannels, o \in FetchOutcomes, raw \in RawFeeds :
    LET r == get_channel_feed(rss_cache, last_cache_update, channel_id, now, o, raw)
    IN  /\ rss_cache' = r.cache
        /\ last_cache_update' = r.last_cache_update
        /\ fetchLog' = IF r.outcome = "ok"
                          THEN (channel_id :> [entries |-> r.entries, at |-> now]) @@ fetchLog
                          ELSE fetchLog
        /\ arg' = channel_id
        /\ res' = [channel |-> channel_id, entries |-> r.entries,
                   outcome |-> r.outcome, raised |-> r.raised]
        /\ UNCHANGED now
        /\ UNCHANGED feedidle

\* YouTubeRSSManager.clear_cache
ClearCache ==
  /\ rss_cache' = << >>
  /\ last_cache_update' = << >>
  /\ fetchLog' = << >>
  /\ arg' = "clear"
  /\ UNCHANGED << now, res >>
  /\ UNCHANGED feedidle

\* An hour passes.
RssElapse ==
  /\ now < CacheMaxTime
  /\ now' = now + 1
  /\ UNCHANGED << rss_cache, last_cache_update, fetchLog, arg, res >>
  /\ UNCHANGED feedidle

RssNext == GetChannelFeed \/ ClearCache \/ RssElapse

RssSpec == RssInit /\ [][RssNext]_vars

\* C38: get_channel_feed never raises.  A call for a channel whose feed was
\* fetched less than 3600 seconds ago (and not cleared since) returns the
\* entries of that fetch and makes no request.  A call for a channel without
\* a fetched feed (none yet, or clear_cache since) makes a request.  A fetch
\* that fails returns the empty list and leaves the cache and its times as
\* they were.  The channels of the cache are the channels of the times.
C38_FeedCache ==
  /\ [](DOMAIN rss_cache = DOMAIN last_cache_update)
  /\ [](~res.raised)
  /\ [][(arg' \in RssChannels /\ now' = now) =>
         /\ (arg' \in DOMAIN fetchLog
                /\ now - fetchLog[arg'].at < RSS_CACHE_DURATION) =>
              (/\ res'.outcome = "cached"
               /\ res'.entries = fetchLog[arg'].entries
               /\ rss_cache' = rss_cache
               /\ last_cache_update' = last_cache_update)
         /\ arg' \notin DOMAIN fetchLog => res'.outcome # "cached"
         /\ res'.outcome \in {"request", "bozo", "error"} =>
              (/\ res'.entries = << >>
               /\ rss_cache' = rss_cache
               /\ last_cache_update' = last_cache_update)]_vars

\* The feed of chA, fetched again in the third hour after an earlier fetch,
\* is answered from the cache.
C38_Witness ==
  /\ res.outcome = "cached"
  /\ res.channel = "chA"
  /\ res.entries = << "v1" >>
  /\ now = 2
  /\ "chA" \in DOMAIN fetchLog
  /\ fetchLog["chA"].at = 2
  /\ "chB" \in DOMAIN rss_cache
  /\ last_cache_update["chB"] = 0

\* C39: no video is inserted in a playlist from which the sweep has deleted
\* it, in the same run or in an earlier one.
C39_NoReinsertAfterSweep ==
  [][\A p \in Playlists :
       Len(playlists'[p]) > Len(playlists[p]) =>
         << p, playlists'[p][Len(playlists'[p])].video >> \notin swept]_vars

\* C40: an insert that failed is not sent again in the same run; in a later
\* run, a feed entry whose insert failed before, which the playlist of its
\* channel does not hold, becomes a candidate of the pass at its step of the
\* discovery (no request of that step failing), so that its insert is
\* attempted again.
C40_FailedInsertRetried ==
  [][/\ issued'.insert = issued.insert + 1 =>
          << run, lastInsert'.playlist, lastInsert'.video >> \notin failedInsert
     /\ (/\ pc = "rss_entry"
         /\ faults' = faults
         /\ \E r \in 1..(run - 1) :
               << r, config[ci].playlist_id, entries[idx] >> \in failedInsert
         /\ ~video_in_playlist(entries[idx], playlists[config[ci].playlist_id]))
        => \E j \in 1..Len(videos') : videos'[j] = entries[idx]]_vars

====
